---- MODULE Spec2Model ----
\* A model of neo-gui's console (src/src/main.rs): the TextBuffer, process_command,
\* the background tasks tokio::spawn starts, the mpsc channel between them and the
\* winit event loop's RedrawRequested and AboutToWait handlers.
\*
\* A String is the sequence of its characters, each a one-character string, so that
\* trim, to_lowercase, starts_with, slicing and format! are computed as the code
\* computes them. The model's alphabet is ASCII.
EXTENDS Integers, Sequences, FiniteSets, TLC

\* ---------------------------------------------------------------- bounds
\* The capacity NeoTermApp::new and process_command's clear give the TextBuffer
\* (the source's literal is 1000), scaled down.
BUFFER_CAPACITY == 3
\* The capacity of the mpsc channel (the source's literal is 1000), scaled down.
CHANNEL_CAPACITY == 2
\* How many tasks are spawned in a run.
MaxTasks == 2
\* How many commands and task-button clicks a run holds.
MaxUserActions == 2
\* The capacity of the buffer of the TextBuffer-only specification BufSpec.
BufCapacity == 3

\* The banner NeoTermApp::new adds. Its box-drawing glyphs are written with ASCII
\* stand-ins (# for the full block, + for a corner, | and = for the bars).
ascii_art ==
    << <<"#", "#", "#", "+", " ", " ", " ", "#", "#", "+", "#", "#", "#", "#", "#", "#", "#",
       "+", " ", "#", "#", "#", "#", "#", "#", "+">>,
       <<"#", "#", "#", "#", "+", " ", " ", "#", "#", "|", "#", "#", "+", "=", "=", "=", "=",
       "+", "#", "#", "+", "=", "=", "=", "#", "#", "+">>,
       <<"#", "#", "+", "#", "#", "+", " ", "#", "#", "|", "#", "#", "#", "#", "#", "+", " ",
       " ", "#", "#", "|", " ", " ", " ", "#", "#", "|">>,
       <<"#", "#", "|", "+", "#", "#", "+", "#", "#", "|", "#", "#", "+", "=", "=", "+", " ",
       " ", "#", "#", "|", " ", " ", " ", "#", "#", "|">>,
       <<"#", "#", "|", " ", "+", "#", "#", "#", "#", "|", "#", "#", "#", "#", "#", "#", "#",
       "+", "+", "#", "#", "#", "#", "#", "#", "+", "+">>,
       <<"+", "=", "+", " ", " ", "+", "=", "=", "=", "+", "+", "=", "=", "=", "=", "=", "=",
       "+", " ", "+", "=", "=", "=", "=", "=", "+", " ">>,
       <<>>,
       <<"W", "e", "l", "c", "o", "m", "e", " ", "t", "o", " ", "N", "e", "o", "-", "T", "e",
       "r", "m", ".", " ", "S", "t", "a", "n", "d", "b", "y", " ", "f", "o", "r", " ", "c",
       "o", "m", "m", "a", "n", "d", "s", ".">> >>

\* process_command, help: the help block.
help_text ==
    << <<"A", "v", "a", "i", "l", "a", "b", "l", "e", " ", "c", "o", "m", "m", "a", "n", "d",
       "s", ":">>,
       <<" ", " ", "h", "e", "l", "p", ",", " ", "?", " ", " ", " ", " ", " ", " ", " ", " ",
       " ", " ", "-", " ", "S", "h", "o", "w", " ", "t", "h", "i", "s", " ", "h", "e", "l",
       "p", " ", "m", "e", "s", "s", "a", "g", "e">>,
       <<" ", " ", "c", "l", "e", "a", "r", " ", " ", " ", " ", " ", " ", " ", " ", " ", " ",
       " ", " ", "-", " ", "C", "l", "e", "a", "r", " ", "t", "h", "e", " ", "t", "e", "r",
       "m", "i", "n", "a", "l">>,
       <<" ", " ", "s", "t", "a", "t", "u", "s", " ", " ", " ", " ", " ", " ", " ", " ", " ",
       " ", " ", "-", " ", "S", "h", "o", "w", " ", "s", "y", "s", "t", "e", "m", " ", "s",
       "t", "a", "t", "u", "s">>,
       <<" ", " ", "e", "c", "h", "o", " ", "<", "t", "e", "x", "t", ">", " ", " ", " ", " ",
       " ", " ", "-", " ", "E", "c", "h", "o", " ", "t", "e", "x", "t", " ", "b", "a", "c", "k">>,
       <<" ", " ", "t", "i", "m", "e", " ", " ", " ", " ", " ", " ", " ", " ", " ", " ", " ",
       " ", " ", "-", " ", "S", "h", "o", "w", " ", "c", "u", "r", "r", "e", "n", "t", " ",
       "t", "i", "m", "e">>,
       <<" ", " ", "d", "a", "t", "e", " ", " ", " ", " ", " ", " ", " ", " ", " ", " ", " ",
       " ", " ", "-", " ", "S", "h", "o", "w", " ", "c", "u", "r", "r", "e", "n", "t", " ",
       "d", "a", "t", "e">>,
       <<" ", " ", "a", "s", "y", "n", "c", "-", "t", "a", "s", "k", " ", " ", " ", " ", " ",
       " ", " ", "-", " ", "R", "u", "n", " ", "a", "s", "y", "n", "c", " ", "t", "a", "s", "k">>,
       <<" ", " ", "l", "o", "g", " ", " ", " ", " ", " ", " ", " ", " ", " ", " ", " ", " ",
       " ", " ", "-", " ", "G", "e", "n", "e", "r", "a", "t", "e", " ", "l", "o", "g", " ",
       "e", "n", "t", "r", "y">>,
       <<" ", " ", "s", "c", "r", "o", "l", "l", "-", "t", "o", "p", " ", " ", " ", " ", " ",
       " ", " ", "-", " ", "S", "c", "r", "o", "l", "l", " ", "t", "o", " ", "t", "o", "p">>,
       <<" ", " ", "s", "c", "r", "o", "l", "l", "-", "b", "o", "t", "t", "o", "m", " ", " ",
       " ", " ", "-", " ", "S", "c", "r", "o", "l", "l", " ", "t", "o", " ", "b", "o", "t",
       "t", "o", "m">> >>

\* NeoTermApp::new: the initial status_message
STATUS_NOMINAL ==
    <<"S", "T", "A", "T", "U", "S", ":", " ", "S", "y", "s", "t", "e", "m", " ", "n", "o", "m",
    "i", "n", "a", "l", ".">>

\* process_command, clear
TERMINAL_CLEARED ==
    <<"T", "e", "r", "m", "i", "n", "a", "l", " ", "c", "l", "e", "a", "r", "e", "d", ".">>

\* process_command, status: format!("System Status: {}", ..)
FMT_SYSTEM_STATUS ==
    <<"S", "y", "s", "t", "e", "m", " ", "S", "t", "a", "t", "u", "s", ":", " ">>

\* run, TaskCompleted: format!("STATUS: {}", result)
FMT_STATUS ==
    <<"S", "T", "A", "T", "U", "S", ":", " ">>

\* run, TaskCompleted: format!("[ASYNC] {}", result)
FMT_ASYNC ==
    <<"[", "A", "S", "Y", "N", "C", "]", " ">>

\* draw_ui, command commit: format!("> {}", command)
FMT_PROMPT ==
    <<">", " ">>

\* process_command, time
FMT_CURRENT_TIME ==
    <<"C", "u", "r", "r", "e", "n", "t", " ", "t", "i", "m", "e", ":", " ">>

\* process_command, date
FMT_CURRENT_DATE ==
    <<"C", "u", "r", "r", "e", "n", "t", " ", "d", "a", "t", "e", ":", " ">>

\* process_command, async-task: the task's NewLine
ASYNC_TASK_STARTED ==
    <<"[", "C", "O", "M", "M", "A", "N", "D", "]", " ", "A", "s", "y", "n", "c", " ", "t", "a",
    "s", "k", " ", "s", "t", "a", "r", "t", "e", "d", ".", ".", ".">>

\* process_command, async-task: the task's TaskCompleted
COMMAND_EXECUTED ==
    <<"C", "o", "m", "m", "a", "n", "d", " ", "e", "x", "e", "c", "u", "t", "e", "d", " ", "s",
    "u", "c", "c", "e", "s", "s", "f", "u", "l", "l", "y", ".">>

\* process_command, async-task: the acknowledgement
ASYNC_TASK_INITIATED ==
    <<"A", "s", "y", "n", "c", " ", "t", "a", "s", "k", " ", "i", "n", "i", "t", "i", "a", "t",
    "e", "d", ".">>

\* process_command, log: the task's NewLine
FMT_COMMAND_LOG ==
    <<"[", "C", "O", "M", "M", "A", "N", "D", "]", " ", "L", "o", "g", " ", "e", "n", "t", "r",
    "y", " ", "a", "t", " ">>

\* process_command, scroll-top
SCROLLED_TO_TOP ==
    <<"S", "c", "r", "o", "l", "l", "e", "d", " ", "t", "o", " ", "t", "o", "p", ".">>

\* process_command, scroll-bottom
SCROLLED_TO_BOTTOM ==
    <<"S", "c", "r", "o", "l", "l", "e", "d", " ", "t", "o", " ", "b", "o", "t", "t", "o", "m",
    ".">>

\* process_command, fallthrough: the text before {}
FMT_UNKNOWN_PRE ==
    <<"U", "n", "k", "n", "o", "w", "n", " ", "c", "o", "m", "m", "a", "n", "d", ":", " ", "'">>

\* process_command, fallthrough: the text after {}
FMT_UNKNOWN_POST ==
    <<"'", ".", " ", "T", "y", "p", "e", " ", "'", "h", "e", "l", "p", "'", " ", "f", "o", "r",
    " ", "a", "v", "a", "i", "l", "a", "b", "l", "e", " ", "c", "o", "m", "m", "a", "n", "d",
    "s", ".">>

\* draw_ui, EXECUTE_SLOW_TASK: the task's NewLine
TASK_STARTED ==
    <<"[", "A", "S", "Y", "N", "C", "]", " ", "T", "a", "s", "k", " ", "s", "t", "a", "r", "t",
    "e", "d", ".", ".", ".">>

\* draw_ui, EXECUTE_SLOW_TASK: the task's TaskCompleted
TASK_COMPLETED ==
    <<"T", "a", "s", "k", " ", "c", "o", "m", "p", "l", "e", "t", "e", "d", " ", "s", "u", "c",
    "c", "e", "s", "s", "f", "u", "l", "l", "y", ".">>

\* draw_ui, GENERATE LOG LINE: the task's NewLine
FMT_SAMPLE_LOG ==
    <<"[", "L", "O", "G", "]", " ", "S", "a", "m", "p", "l", "e", " ", "l", "o", "g", " ", "e",
    "n", "t", "r", "y", " ", "a", "t", " ">>

\* The patterns of process_command's match on cmd.
CMD_HELP ==
    <<"h", "e", "l", "p">>
CMD_QUESTION ==
    <<"?">>
CMD_CLEAR ==
    <<"c", "l", "e", "a", "r">>
CMD_STATUS ==
    <<"s", "t", "a", "t", "u", "s">>
CMD_ECHO_PREFIX ==
    <<"e", "c", "h", "o", " ">>
CMD_TIME ==
    <<"t", "i", "m", "e">>
CMD_DATE ==
    <<"d", "a", "t", "e">>
CMD_ASYNC_TASK ==
    <<"a", "s", "y", "n", "c", "-", "t", "a", "s", "k">>
CMD_LOG ==
    <<"l", "o", "g">>
CMD_SCROLL_TOP ==
    <<"s", "c", "r", "o", "l", "l", "-", "t", "o", "p">>
CMD_SCROLL_BOTTOM ==
    <<"s", "c", "r", "o", "l", "l", "-", "b", "o", "t", "t", "o", "m">>

\* ---------------------------------------------------------------- String
ASCII_UPPERCASE ==
    <<"A", "B", "C", "D", "E", "F", "G", "H", "I", "J", "K", "L", "M", "N", "O", "P", "Q", "R",
    "S", "T", "U", "V", "W", "X", "Y", "Z">>

ASCII_LOWERCASE ==
    <<"a", "b", "c", "d", "e", "f", "g", "h", "i", "j", "k", "l", "m", "n", "o", "p", "q", "r",
    "s", "t", "u", "v", "w", "x", "y", "z">>

\* char::is_whitespace, on the model's alphabet.
is_whitespace(c) == c \in {" ", "\t"}

\* char::to_lowercase, on the model's alphabet.
char_to_lowercase(c) ==
    IF \E k \in 1..Len(ASCII_UPPERCASE) : ASCII_UPPERCASE[k] = c
    THEN ASCII_LOWERCASE[CHOOSE k \in 1..Len(ASCII_UPPERCASE) : ASCII_UPPERCASE[k] = c]
    ELSE c

\* str::to_lowercase: every character lower-cased.
to_lowercase(s) == IF s = <<>> THEN <<>> ELSE [i \in 1..Len(s) |-> char_to_lowercase(s[i])]

RECURSIVE trim_start(_)
trim_start(s) ==
    IF s # <<>> /\ is_whitespace(Head(s)) THEN trim_start(Tail(s)) ELSE s

RECURSIVE trim_end(_)
trim_end(s) ==
    IF s # <<>> /\ is_whitespace(s[Len(s)]) THEN trim_end(SubSeq(s, 1, Len(s) - 1)) ELSE s

\* str::trim: leading and trailing whitespace removed.
trim(s) == trim_end(trim_start(s))

\* str::starts_with.
starts_with(s, prefix) ==
    Len(s) >= Len(prefix) /\ SubSeq(s, 1, Len(prefix)) = prefix

\* &s[from..]: the slice from byte offset `from` (0-based) to the end.
slice_from(s, from) == SubSeq(s, from + 1, Len(s))

\* usize::saturating_sub.
saturating_sub(a, b) == IF a >= b THEN a - b ELSE 0

\* usize::min.
min(a, b) == IF a <= b THEN a ELSE b

\* ---------------------------------------------------------------- TextBuffer
\* TextBuffer::new.
TextBuffer_new(max_lines) ==
    [lines |-> <<>>, max_lines |-> max_lines, scroll_position |-> 0]

\* Mutant of add_line: the capacity test is > where the code has >=.
add_line_off_by_one(buf, line) ==
    LET evicted ==
            IF Len(buf.lines) > buf.max_lines
            THEN [buf EXCEPT !.lines = Tail(buf.lines),
                             !.scroll_position = IF buf.scroll_position > 0
                                                 THEN buf.scroll_position - 1
                                                 ELSE buf.scroll_position]
            ELSE buf
        pushed == [evicted EXCEPT !.lines = Append(evicted.lines, line)]
    IN  [pushed EXCEPT !.scroll_position =
                           saturating_sub(Len(pushed.lines), pushed.max_lines)]

\* Mutant of add_line: a full buffer drops its newest line (pop) where the code drops
\* its oldest (remove(0)).
add_line_evicts_newest(buf, line) ==
    LET evicted ==
            IF Len(buf.lines) >= buf.max_lines
            THEN [buf EXCEPT !.lines = SubSeq(buf.lines, 1, Len(buf.lines) - 1),
                             !.scroll_position = IF buf.scroll_position > 0
                                                 THEN buf.scroll_position - 1
                                                 ELSE buf.scroll_position]
            ELSE buf
        pushed == [evicted EXCEPT !.lines = Append(evicted.lines, line)]
    IN  [pushed EXCEPT !.scroll_position =
                           saturating_sub(Len(pushed.lines), pushed.max_lines)]

\* Mutant of add_line: the line is pushed with neither the eviction nor the auto-scroll.
add_line_push_only(buf, line) ==
    [buf EXCEPT !.lines = Append(buf.lines, line)]

\* TextBuffer::add_line.
add_line(buf, line) ==
    LET evicted ==
            IF Len(buf.lines) >= buf.max_lines
            THEN [buf EXCEPT !.lines = Tail(buf.lines),
                             !.scroll_position = IF buf.scroll_position > 0
                                                 THEN buf.scroll_position - 1
                                                 ELSE buf.scroll_position]
            ELSE buf
        pushed == [evicted EXCEPT !.lines = Append(evicted.lines, line)]
    IN  [pushed EXCEPT !.scroll_position =
                           saturating_sub(Len(pushed.lines), pushed.max_lines)]

\* TextBuffer::scroll_up.
scroll_up(buf) ==
    IF buf.scroll_position > 0
    THEN [buf EXCEPT !.scroll_position = buf.scroll_position - 1]
    ELSE buf

\* Mutant of scroll_down: the offset is raised without the test against max_scroll.
scroll_down_unclamped(buf) ==
    [buf EXCEPT !.scroll_position = buf.scroll_position + 1]

\* TextBuffer::scroll_down.
scroll_down(buf) ==
    LET max_scroll == saturating_sub(Len(buf.lines), buf.max_lines)
    IN  IF buf.scroll_position < max_scroll
        THEN [buf EXCEPT !.scroll_position = buf.scroll_position + 1]
        ELSE buf

\* TextBuffer::scroll_to_top.
scroll_to_top(buf) == [buf EXCEPT !.scroll_position = 0]

\* Mutant of scroll_to_bottom: the viewport is taken to be one line high.
scroll_to_bottom_one_line(buf) ==
    [buf EXCEPT !.scroll_position = saturating_sub(Len(buf.lines), 1)]

\* TextBuffer::scroll_to_bottom.
scroll_to_bottom(buf) ==
    [buf EXCEPT !.scroll_position = saturating_sub(Len(buf.lines), buf.max_lines)]

\* Mutant of visible_lines: the window's end is one short.
visible_lines_one_short(buf) ==
    LET start == buf.scroll_position
        end == min(start + buf.max_lines, Len(buf.lines)) - 1
    IN  IF start < Len(buf.lines) THEN SubSeq(buf.lines, start + 1, end) ELSE <<>>

\* TextBuffer::visible_lines.
visible_lines(buf) ==
    LET start == buf.scroll_position
        end == min(start + buf.max_lines, Len(buf.lines))
    IN  IF start < Len(buf.lines) THEN SubSeq(buf.lines, start + 1, end) ELSE <<>>

\* TextBuffer::is_at_bottom.
is_at_bottom(buf) ==
    buf.scroll_position >= saturating_sub(Len(buf.lines), buf.max_lines)

\* add_line for each line of `ls` in order (the for loops over ascii_art and help_text).
RECURSIVE add_lines(_, _)
add_lines(buf, ls) ==
    IF ls = <<>> THEN buf ELSE add_lines(add_line(buf, Head(ls)), Tail(ls))

\* ---------------------------------------------------------------- inputs
\* The wall-clock readings chrono::Local::now() can give, formatted %H:%M:%S.
Times ==
    { <<"0", "9", ":", "5", "9", ":", "5", "9">>,
      <<"1", "0", ":", "0", "0", ":", "0", "0">> }

\* The wall-clock readings chrono::Local::now() can give, formatted %Y-%m-%d.
Dates ==
    { <<"2", "0", "2", "4", "-", "0", "1", "-", "3", "1">> }

\* The command lines the user types into the text edit.
Inputs ==
    { <<"h", "e", "l", "p">>,
      <<"?">>,
      <<"c", "l", "e", "a", "r">>,
      <<" ", "C", "l", "e", "a", "r", " ">>,
      <<"s", "t", "a", "t", "u", "s">>,
      <<"e", "c", "h", "o", " ", "H", "i">>,
      <<"E", "C", "H", "O", " ", " ", "a", " ", "B">>,
      <<"e", "c", "h", "o">>,
      <<"t", "i", "m", "e">>,
      <<"d", "a", "t", "e">>,
      <<"a", "s", "y", "n", "c", "-", "t", "a", "s", "k">>,
      <<"l", "o", "g">>,
      <<"s", "c", "r", "o", "l", "l", "-", "t", "o", "p">>,
      <<"s", "c", "r", "o", "l", "l", "-", "b", "o", "t", "t", "o", "m">>,
      <<>>,
      <<" ", "\t">>,
      <<"B", "o", "g", "u", "s", " ", "X">> }

\* The lines the TextBuffer-only specification adds.
SampleLines == { <<"a">>, <<"b">>, <<>> }

\* ---------------------------------------------------------------- state
\* The event loop's own ControlFlow and pending redraw request belong to the windowing
\* library and decide only when the handlers run; the handlers below may run at any time.
VARIABLES
    text_buffer,       \* AppState.text_buffer: [lines, max_lines, scroll_position]
    status_message,    \* AppState.status_message
    command_input,     \* AppState.command_input
    channel,           \* the messages queued in the mpsc channel, oldest first
    receiver_alive,    \* whether AppState.message_receiver still exists
    tasks,             \* the tasks tokio::spawn started, in spawn order:
                       \* [kind, pc, sent, applied]; sent counts the task's successful
                       \* sends and applied lists its messages the drain applied (history)
    user_actions,      \* how many commands and task buttons were used (bounds the run)
    last_frame,        \* history: what the last frame did, [ui, input]
    inserted           \* history (BufSpec): the lines add_line was given, in order

vars ==
    <<text_buffer, status_message, command_input, channel, receiver_alive, tasks,
      user_actions, last_frame, inserted>>

\* ---------------------------------------------------------------- tasks
\* The NewLine a task sends first.
task_first_message(kind, time) ==
    IF kind = "async-task" THEN ASYNC_TASK_STARTED
    ELSE IF kind = "log" THEN FMT_COMMAND_LOG \o time
    ELSE IF kind = "slow_task" THEN TASK_STARTED
    ELSE FMT_SAMPLE_LOG \o time

\* The TaskCompleted a two-message task sends after its sleep.
task_completion(kind) ==
    IF kind = "async-task" THEN COMMAND_EXECUTED ELSE TASK_COMPLETED

\* Whether the task sleeps and sends a TaskCompleted after its NewLine.
has_completion(kind) == kind \in {"async-task", "slow_task"}

\* Mutant of spawn: the new task starts at its second send, with no NewLine and no delay.
spawn_at_completion(ts, kind) ==
    Append(ts, [kind |-> kind, pc |-> "send_done", sent |-> 0, applied |-> <<>>])

\* tokio::spawn(async move { .. }): the new task, about to send its NewLine.
spawn(ts, kind) ==
    Append(ts, [kind |-> kind, pc |-> "send_start", sent |-> 0, applied |-> <<>>])

\* Mutant of TaskSendStart: the task holds the buffer and appends its line itself.
TaskWritesBuffer(t) ==
    /\ t \in 1..Len(tasks)
    /\ tasks[t].pc = "send_start"
    /\ receiver_alive
    /\ \E time \in Times :
        text_buffer' = add_line(text_buffer, task_first_message(tasks[t].kind, time))
    /\ tasks' = [tasks EXCEPT ![t].pc = IF has_completion(tasks[t].kind)
                                        THEN "sleep" ELSE "done",
                              ![t].sent = 1]
    /\ UNCHANGED <<status_message, command_input, channel, receiver_alive,
                   user_actions, last_frame, inserted>>

\* tx.send(AppMessage::NewLine(..)).await while the receiver exists: the send waits
\* for room in the channel, then queues the message.
TaskSendStart(t) ==
    /\ t \in 1..Len(tasks)
    /\ tasks[t].pc = "send_start"
    /\ receiver_alive
    /\ Len(channel) < CHANNEL_CAPACITY
    /\ \E time \in Times :
        channel' = Append(channel, [type |-> "NewLine",
                                    text |-> task_first_message(tasks[t].kind, time),
                                    task |-> t])
    /\ tasks' = [tasks EXCEPT ![t].pc = IF has_completion(tasks[t].kind)
                                        THEN "sleep" ELSE "done",
                              ![t].sent = 1]
    /\ UNCHANGED <<text_buffer, status_message, command_input, receiver_alive,
                   user_actions, last_frame, inserted>>

\* tokio::time::sleep(..).await elapses.
TaskSleep(t) ==
    /\ t \in 1..Len(tasks)
    /\ tasks[t].pc = "sleep"
    /\ tasks' = [tasks EXCEPT ![t].pc = "send_done"]
    /\ UNCHANGED <<text_buffer, status_message, command_input, channel, receiver_alive,
                   user_actions, last_frame, inserted>>

\* Mutant of TaskSendDone: try_send for send, the message is dropped when the channel
\* is full and the task goes on as if it had been sent.
TaskTrySendDone(t) ==
    /\ t \in 1..Len(tasks)
    /\ tasks[t].pc = "send_done"
    /\ receiver_alive
    /\ channel' = IF Len(channel) < CHANNEL_CAPACITY
                  THEN Append(channel, [type |-> "TaskCompleted",
                                        text |-> task_completion(tasks[t].kind),
                                        task |-> t])
                  ELSE channel
    /\ tasks' = [tasks EXCEPT ![t].pc = "done", ![t].sent = 2]
    /\ UNCHANGED <<text_buffer, status_message, command_input, receiver_alive,
                   user_actions, last_frame, inserted>>

\* tx.send(AppMessage::TaskCompleted(..)).await while the receiver exists.
TaskSendDone(t) ==
    /\ t \in 1..Len(tasks)
    /\ tasks[t].pc = "send_done"
    /\ receiver_alive
    /\ Len(channel) < CHANNEL_CAPACITY
    /\ channel' = Append(channel, [type |-> "TaskCompleted",
                                   text |-> task_completion(tasks[t].kind),
                                   task |-> t])
    /\ tasks' = [tasks EXCEPT ![t].pc = "done", ![t].sent = 2]
    /\ UNCHANGED <<text_buffer, status_message, command_input, receiver_alive,
                   user_actions, last_frame, inserted>>

\* Mutant of TaskSendFail: the `return` after the failed NewLine send is missing.
TaskSendFailGoesOn(t) ==
    /\ t \in 1..Len(tasks)
    /\ tasks[t].pc \in {"send_start", "send_done"}
    /\ ~receiver_alive
    /\ tasks' = [tasks EXCEPT ![t].pc = IF tasks[t].pc = "send_start"
                                           /\ has_completion(tasks[t].kind)
                                        THEN "sleep" ELSE "failed"]
    /\ UNCHANGED <<text_buffer, status_message, command_input, channel, receiver_alive,
                   user_actions, last_frame, inserted>>

\* A send once the receiver is gone: is_err(), eprintln!, and the task ends.
TaskSendFail(t) ==
    /\ t \in 1..Len(tasks)
    /\ tasks[t].pc \in {"send_start", "send_done"}
    /\ ~receiver_alive
    /\ tasks' = [tasks EXCEPT ![t].pc = "failed"]
    /\ UNCHANGED <<text_buffer, status_message, command_input, channel, receiver_alive,
                   user_actions, last_frame, inserted>>

\* ---------------------------------------------------------------- process_command
\* Mutant of unknown_command: the diagnostic stops after the quoted command.
unknown_command_cut_short(buf, cmd) ==
    add_line(buf, FMT_UNKNOWN_PRE \o cmd)

\* process_command, fallthrough: the diagnostic line for a command no arm matches.
unknown_command(buf, cmd) ==
    add_line(buf, FMT_UNKNOWN_PRE \o cmd \o FMT_UNKNOWN_POST)

\* Mutant of cleared_buffer: the new buffer is given another capacity.
cleared_buffer_other_capacity ==
    add_line(TextBuffer_new(BUFFER_CAPACITY + 1), TERMINAL_CLEARED)

\* process_command, clear: a new buffer holding the confirmation line.
cleared_buffer ==
    add_line(TextBuffer_new(BUFFER_CAPACITY), TERMINAL_CLEARED)

\* process_command: the buffer after the command and the task it spawns, if any.
process_command(command, buf, status, time, date) ==
    LET cmd == to_lowercase(trim(command))
    IN  IF cmd = CMD_HELP \/ cmd = CMD_QUESTION
        THEN [text_buffer |-> add_lines(buf, help_text), spawn |-> "none"]
        ELSE IF cmd = CMD_CLEAR
        THEN [text_buffer |-> cleared_buffer, spawn |-> "none"]
        ELSE IF cmd = CMD_STATUS
        THEN [text_buffer |-> add_line(buf, FMT_SYSTEM_STATUS \o status), spawn |-> "none"]
        ELSE IF starts_with(cmd, CMD_ECHO_PREFIX)
        THEN [text_buffer |-> add_line(buf, slice_from(cmd, 5)), spawn |-> "none"]
        ELSE IF cmd = CMD_TIME
        THEN [text_buffer |-> add_line(buf, FMT_CURRENT_TIME \o time), spawn |-> "none"]
        ELSE IF cmd = CMD_DATE
        THEN [text_buffer |-> add_line(buf, FMT_CURRENT_DATE \o date), spawn |-> "none"]
        ELSE IF cmd = CMD_ASYNC_TASK
        THEN [text_buffer |-> add_line(buf, ASYNC_TASK_INITIATED), spawn |-> "async-task"]
        ELSE IF cmd = CMD_LOG
        THEN [text_buffer |-> buf, spawn |-> "log"]
        ELSE IF cmd = CMD_SCROLL_TOP
        THEN [text_buffer |-> add_line(scroll_to_top(buf), SCROLLED_TO_TOP),
              spawn |-> "none"]
        ELSE IF cmd = CMD_SCROLL_BOTTOM
        THEN [text_buffer |-> add_line(scroll_to_bottom(buf), SCROLLED_TO_BOTTOM),
              spawn |-> "none"]
        ELSE IF cmd = <<>>
        THEN [text_buffer |-> buf, spawn |-> "none"]
        ELSE [text_buffer |-> unknown_command(buf, cmd), spawn |-> "none"]

\* ---------------------------------------------------------------- the event loop
\* Mutant of apply_message: a NewLine sets the status summary as well.
apply_message_sets_status(st, message) ==
    [status_message |-> FMT_STATUS \o message.text,
     text_buffer |-> add_line(st.text_buffer,
                              IF message.type = "TaskCompleted"
                              THEN FMT_ASYNC \o message.text ELSE message.text)]

\* The body of RedrawRequested's while-let loop for one message.
apply_message(st, message) ==
    IF message.type = "TaskCompleted"
    THEN [status_message |-> FMT_STATUS \o message.text,
          text_buffer |-> add_line(st.text_buffer, FMT_ASYNC \o message.text)]
    ELSE [st EXCEPT !.text_buffer = add_line(st.text_buffer, message.text)]

\* Mutant of drain: `if let` for `while let`, only the oldest message is applied.
drain_only_oldest(st, messages) ==
    IF messages = <<>> THEN st ELSE apply_message(st, Head(messages))

\* while let Ok(message) = try_recv(): every queued message applied, oldest first.
\* The state after the oldest message is bound as a value (`next`) before the loop goes
\* on with the rest, as the loop body has run before the next try_recv.
RECURSIVE drain(_, _)
drain(st, messages) ==
    IF messages = <<>> THEN st
    ELSE CHOOSE after \in {drain(next, Tail(messages)) :
                             next \in {apply_message(st, Head(messages))}} : TRUE

\* The history of applied messages after the drain applied `messages`.
RECURSIVE record_applied(_, _)
record_applied(ts, messages) ==
    IF messages = <<>> THEN ts
    ELSE LET m == Head(messages)
         IN  record_applied([ts EXCEPT ![m.task].applied = Append(@, m.type)],
                            Tail(messages))

\* Mutant of drained: every tick leaves an empty line in the buffer.
drained_marks_tick ==
    LET st == drain([status_message |-> status_message, text_buffer |-> text_buffer],
                    channel)
    IN  [st EXCEPT !.text_buffer = add_line(st.text_buffer, <<>>)]

\* The application state after RedrawRequested's drain of the channel.
drained == drain([status_message |-> status_message, text_buffer |-> text_buffer], channel)

\* Mutant of commit: the test for an empty command line is left out.
commit_unguarded(input, buf, status, time, date) ==
    process_command(input, add_line(buf, FMT_PROMPT \o input), status, time, date)

\* draw_ui's command commit (Enter in the text edit, or the Execute button) with the
\* text edit holding `input`: the prompt line, then process_command.
commit(input, buf, status, time, date) ==
    IF trim(input) # <<>>
    THEN process_command(input, add_line(buf, FMT_PROMPT \o input), status, time, date)
    ELSE [text_buffer |-> buf, spawn |-> "none"]

\* What a scroll button does to the buffer.
scroll_button(button, buf) ==
    IF button = "top" THEN scroll_to_top(buf)
    ELSE IF button = "up" THEN scroll_up(buf)
    ELSE IF button = "down" THEN scroll_down(buf)
    ELSE scroll_to_bottom(buf)

\* RedrawRequested with no widget activated: the drain, then draw_ui only reads.
RedrawIdle ==
    /\ receiver_alive
    /\ text_buffer' = drained.text_buffer
    /\ status_message' = drained.status_message
    /\ tasks' = record_applied(tasks, channel)
    /\ channel' = <<>>
    /\ last_frame' = [ui |-> "none", input |-> <<>>]
    /\ UNCHANGED <<command_input, receiver_alive, user_actions, inserted>>

\* RedrawRequested with one of the two task buttons clicked: the drain, then the spawn.
RedrawButton(kind) ==
    /\ receiver_alive
    /\ user_actions < MaxUserActions
    /\ Len(tasks) < MaxTasks
    /\ text_buffer' = drained.text_buffer
    /\ status_message' = drained.status_message
    /\ tasks' = spawn(record_applied(tasks, channel), kind)
    /\ channel' = <<>>
    /\ user_actions' = user_actions + 1
    /\ last_frame' = [ui |-> "none", input |-> <<>>]
    /\ UNCHANGED <<command_input, receiver_alive, inserted>>

\* RedrawRequested with the text edit holding `input` and the command committed:
\* the drain, then the prompt line and process_command.
RedrawCommit(input) ==
    /\ receiver_alive
    /\ user_actions < MaxUserActions
    /\ \E time \in Times, date \in Dates :
        LET done == commit(input, drained.text_buffer, drained.status_message, time, date)
        IN  /\ done.spawn # "none" => Len(tasks) < MaxTasks
            /\ text_buffer' = done.text_buffer
            /\ tasks' = IF done.spawn = "none"
                        THEN record_applied(tasks, channel)
                        ELSE spawn(record_applied(tasks, channel), done.spawn)
    /\ status_message' = drained.status_message
    /\ command_input' = IF trim(input) # <<>> THEN <<>> ELSE input
    /\ channel' = <<>>
    /\ user_actions' = user_actions + 1
    /\ last_frame' = [ui |-> "commit", input |-> input]
    /\ UNCHANGED <<receiver_alive, inserted>>

\* RedrawRequested with one of the four scroll buttons clicked.
RedrawScroll(button) ==
    /\ receiver_alive
    /\ text_buffer' = scroll_button(button, drained.text_buffer)
    /\ status_message' = drained.status_message
    /\ tasks' = record_applied(tasks, channel)
    /\ channel' = <<>>
    /\ last_frame' = [ui |-> "none", input |-> <<>>]
    /\ UNCHANGED <<command_input, receiver_alive, user_actions, inserted>>

\* Event::AboutToWait: try_recv().is_ok() takes the oldest queued message, if there is
\* one, and drops it (a redraw is then requested).
AboutToWait ==
    /\ receiver_alive
    /\ channel' = IF channel # <<>> THEN Tail(channel) ELSE channel
    /\ UNCHANGED <<text_buffer, status_message, command_input, receiver_alive, tasks,
                   user_actions, last_frame, inserted>>

\* WindowEvent::CloseRequested: elwt.exit() ends run, which drops the application
\* state, the receiver and the messages still queued with it.
CloseRequested ==
    /\ receiver_alive
    /\ receiver_alive' = FALSE
    /\ channel' = <<>>
    /\ UNCHANGED <<text_buffer, status_message, command_input, tasks,
                   user_actions, last_frame, inserted>>

\* ---------------------------------------------------------------- specifications
\* The state NeoTermApp::new leaves: the banner in a new buffer, an empty channel.
Init ==
    /\ text_buffer = add_lines(TextBuffer_new(BUFFER_CAPACITY), ascii_art)
    /\ status_message = STATUS_NOMINAL
    /\ command_input = <<>>
    /\ channel = <<>>
    /\ receiver_alive = TRUE
    /\ tasks = <<>>
    /\ user_actions = 0
    /\ last_frame = [ui |-> "new", input |-> <<>>]
    /\ inserted = <<>>

Next ==
    \/ RedrawIdle
    \/ \E kind \in {"slow_task", "log_line"} : RedrawButton(kind)
    \/ \E input \in Inputs : RedrawCommit(input)
    \/ \E button \in {"top", "up", "down", "bottom"} : RedrawScroll(button)
    \/ AboutToWait
    \/ CloseRequested
    \/ \E t \in 1..MaxTasks : TaskSendStart(t)
    \/ \E t \in 1..MaxTasks : TaskSleep(t)
    \/ \E t \in 1..MaxTasks : TaskSendDone(t)
    \/ \E t \in 1..MaxTasks : TaskSendFail(t)

Spec == Init /\ [][Next]_vars

\* The background tasks run on the tokio runtime, which polls every ready task, and the
\* redraw tick is taken to recur: a step of a task, or a drain of a non-empty channel,
\* that stays possible is eventually taken.
Fairness ==
    /\ \A t \in 1..MaxTasks :
        /\ WF_vars(TaskSendStart(t))
        /\ WF_vars(TaskSleep(t))
        /\ WF_vars(TaskSendDone(t))
        /\ WF_vars(TaskSendFail(t))
    /\ WF_vars(RedrawIdle)

FairSpec == Init /\ [][Next]_vars /\ Fairness

\* ---------------------------------------------------------------- TextBuffer alone
\* A TextBuffer under every order of calls of its methods, from TextBuffer::new.
BufInit ==
    /\ text_buffer = TextBuffer_new(BufCapacity)
    /\ status_message = STATUS_NOMINAL
    /\ command_input = <<>>
    /\ channel = <<>>
    /\ receiver_alive = TRUE
    /\ tasks = <<>>
    /\ user_actions = 0
    /\ last_frame = [ui |-> "new", input |-> <<>>]
    /\ inserted = <<>>

\* TextBuffer::new again (as process_command's clear does).
BufNew ==
    /\ text_buffer' = TextBuffer_new(BufCapacity)
    /\ inserted' = <<>>
    /\ last_frame' = [ui |-> "new", input |-> <<>>]
    /\ UNCHANGED <<status_message, command_input, channel, receiver_alive, tasks,
                   user_actions>>

\* One call of add_line; the run holds at most BufCapacity + 2 of them per buffer.
BufAddLine(line) ==
    /\ Len(inserted) < BufCapacity + 2
    /\ text_buffer' = add_line(text_buffer, line)
    /\ inserted' = Append(inserted, line)
    /\ last_frame' = [ui |-> "add_line", input |-> line]
    /\ UNCHANGED <<status_message, command_input, channel, receiver_alive, tasks,
                   user_actions>>

\* One call of scroll_to_top, scroll_up, scroll_down or scroll_to_bottom.
BufScroll(button) ==
    /\ text_buffer' = scroll_button(button, text_buffer)
    /\ last_frame' = [ui |-> button, input |-> <<>>]
    /\ UNCHANGED <<status_message, command_input, channel, receiver_alive, tasks,
                   user_actions, inserted>>

BufNext ==
    \/ BufNew
    \/ \E line \in SampleLines : BufAddLine(line)
    \/ \E button \in {"top", "up", "down", "bottom"} : BufScroll(button)

BufSpec == BufInit /\ [][BufNext]_vars

\* ---------------------------------------------------------------- claims
\* How many of task t's messages are queued in the channel.
queued(t) == Cardinality({i \in 1..Len(channel) : channel[i].task = t})

\* C1: while the receiver exists, every message a task sent successfully is either
\* still queued or was applied to the buffer by the drain exactly once: none leaves the
\* channel without being applied, and none is applied twice.
C1_ConsumedExactlyOnce ==
    receiver_alive =>
        \A t \in 1..Len(tasks) : Len(tasks[t].applied) + queued(t) = tasks[t].sent

\* C2: the buffer never holds more lines than its capacity.
C2_WithinCapacity == Len(text_buffer.lines) <= text_buffer.max_lines

\* C2's case: a full buffer after a command was committed and a message was drained.
C2_Witness ==
    /\ last_frame.ui = "commit"
    /\ Len(text_buffer.lines) = text_buffer.max_lines
    /\ \E t \in 1..Len(tasks) : tasks[t].applied # <<>>

\* C3: after N add_line calls on a new buffer of capacity C the buffer holds the last C
\* of the inserted lines in insertion order when N >= C, and all N of them when N < C.
C3_LastCapacityLines ==
    LET n == Len(inserted)
        c == text_buffer.max_lines
    IN  text_buffer.lines = IF n >= c THEN SubSeq(inserted, n - c + 1, n) ELSE inserted

\* C3's case: more lines were inserted than the buffer holds, the evicted one unlike
\* the oldest kept.
C3_Witness ==
    /\ Len(inserted) = text_buffer.max_lines + 2
    /\ inserted[1] # text_buffer.lines[1]
    /\ inserted[2] # text_buffer.lines[1]

\* C4: a task's completion line is never appended before its start line, and once
\* both of its sends have landed and been drained, both lines were appended, the start
\* line first.
C4_StartBeforeCompletion ==
    \A t \in 1..Len(tasks) :
        /\ tasks[t].applied # <<>> => tasks[t].applied[1] = "NewLine"
        /\ (receiver_alive /\ tasks[t].sent = 2 /\ queued(t) = 0)
               => tasks[t].applied = <<"NewLine", "TaskCompleted">>

\* The kind of task t, "none" while it is not spawned.
kind_of(t) == IF t <= Len(tasks) THEN tasks[t].kind ELSE "none"

\* The messages of task t the drain applied; none while it is not spawned.
applied_of(t) == IF t <= Len(tasks) THEN tasks[t].applied ELSE <<>>

\* C5: under fair scheduling of the tasks and of the redraw tick, and while the
\* receiver exists, the task of an async-task command eventually has its start line
\* and its completion line appended, and the status summary shows a completion.
C5_EventuallyDelivered ==
    \A t \in 1..MaxTasks :
        (kind_of(t) = "async-task")
            ~> \/ ~receiver_alive
               \/ /\ applied_of(t) = <<"NewLine", "TaskCompleted">>
                  /\ status_message \in {FMT_STATUS \o COMMAND_EXECUTED,
                                         FMT_STATUS \o TASK_COMPLETED}

\* max(0, len(lines) - viewport_height), the viewport height being max_lines.
max_scroll(buf) ==
    IF Len(buf.lines) > buf.max_lines THEN Len(buf.lines) - buf.max_lines ELSE 0

\* C6: the scroll offset is within 0..max_scroll; scroll_up and scroll_down move it
\* by at most one and not out of that range; scroll_down at max_scroll changes nothing.
C6_ScrollClamped ==
    LET now == text_buffer.scroll_position
        up == scroll_up(text_buffer).scroll_position
        down == scroll_down(text_buffer).scroll_position
    IN  /\ now \in 0..max_scroll(text_buffer)
        /\ up \in 0..max_scroll(text_buffer)
        /\ down \in 0..max_scroll(text_buffer)
        /\ up \in {now - 1, now}
        /\ down \in {now, now + 1}
        /\ now = max_scroll(text_buffer) => scroll_down(text_buffer) = text_buffer

\* C6's case: scroll_down was called on a full buffer that had evicted lines, with the
\* offset at max_scroll.
C6_Witness ==
    /\ last_frame.ui = "down"
    /\ Len(inserted) > text_buffer.max_lines
    /\ text_buffer.scroll_position = max_scroll(text_buffer)

\* C7: visible_lines() is lines[scroll_offset .. min(scroll_offset + viewport_height,
\* len(lines))]: at most viewport_height lines, none past len(lines), and the empty
\* sequence when scroll_offset >= len(lines).
C7_VisibleWindow ==
    LET lo == text_buffer.scroll_position
        len == Len(text_buffer.lines)
        hi == IF lo + text_buffer.max_lines <= len THEN lo + text_buffer.max_lines ELSE len
        seen == visible_lines(text_buffer)
    IN  /\ Len(seen) <= text_buffer.max_lines
        /\ lo + Len(seen) <= len \/ seen = <<>>
        /\ lo >= len => seen = <<>>
        /\ lo < len => /\ Len(seen) = hi - lo
                       /\ \A i \in 1..(hi - lo) : seen[i] = text_buffer.lines[lo + i]

\* C7's case: a full buffer that has evicted lines, all of it visible.
C7_Witness ==
    /\ Len(inserted) > text_buffer.max_lines
    /\ Len(visible_lines(text_buffer)) = text_buffer.max_lines
    /\ last_frame.ui = "add_line"

committed(verb) ==
    /\ last_frame.ui = "commit"
    /\ to_lowercase(trim(last_frame.input)) = verb

\* C9 as stated: after `clear` the buffer holds no line, the scroll offset is 0 and the
\* capacity is the one the buffer had.
C9_ClearEmpties ==
    committed(CMD_CLEAR) =>
        /\ Len(text_buffer.lines) = 0
        /\ text_buffer.scroll_position = 0
        /\ text_buffer.max_lines = BUFFER_CAPACITY

\* C9 as amended: after `clear` the buffer holds the one line "Terminal cleared.", the
\* scroll offset is 0, and the capacity is the one every buffer of the run has.
C9_ClearLeavesConfirmation ==
    /\ text_buffer.max_lines = BUFFER_CAPACITY
    /\ committed(CMD_CLEAR) =>
        /\ text_buffer.lines = <<TERMINAL_CLEARED>>
        /\ text_buffer.scroll_position = 0

\* C9's case: `clear` was committed after a task's message had been drained.
C9_Witness ==
    /\ committed(CMD_CLEAR)
    /\ \E t \in 1..Len(tasks) : tasks[t].applied # <<>>
    /\ Len(text_buffer.lines) = 1

\* Whether the last frame committed an `echo <text>` line, the verb in any letter case.
committed_echo ==
    /\ last_frame.ui = "commit"
    /\ Len(trim(last_frame.input)) > 5
    /\ to_lowercase(SubSeq(trim(last_frame.input), 1, 5)) = CMD_ECHO_PREFIX

\* C10: after `echo <text>` is processed the buffer's newest line is <text> as typed:
\* the input without the verb and the one space after it.
C10_EchoVerbatim ==
    committed_echo =>
        text_buffer.lines[Len(text_buffer.lines)] = slice_from(trim(last_frame.input), 5)

\* The newest line of the buffer.
newest_line == text_buffer.lines[Len(text_buffer.lines)]

\* The line two before the newest (the one before a command's prompt line and its one
\* line of output); the empty line when the buffer holds fewer than three lines.
before_prompt ==
    IF Len(text_buffer.lines) >= 3
    THEN text_buffer.lines[Len(text_buffer.lines) - 2]
    ELSE <<>>

\* The verb `echo`: the echo arm's prefix without its space.
VERB_ECHO == SubSeq(CMD_ECHO_PREFIX, 1, Len(CMD_ECHO_PREFIX) - 1)

\* C11: after `echo` with no argument is processed the buffer's newest line is the
\* empty line, not the unknown-command diagnostic.
C11_EchoEmptyArgument ==
    committed(VERB_ECHO) => newest_line = <<>>

\* The first word of s: its characters up to the first whitespace.
RECURSIVE first_word(_)
first_word(s) ==
    IF s = <<>> \/ is_whitespace(Head(s)) THEN <<>> ELSE <<Head(s)>> \o first_word(Tail(s))

\* The verbs of the dispatch table.
DispatchTable ==
    {CMD_HELP, CMD_QUESTION, CMD_CLEAR, CMD_STATUS, VERB_ECHO, CMD_TIME, CMD_DATE,
     CMD_ASYNC_TASK, CMD_LOG, CMD_SCROLL_TOP, CMD_SCROLL_BOTTOM}

\* Whether `input` is not empty and its verb, in any letter case, is not in the table.
unknown_verb(input) ==
    /\ trim(input) # <<>>
    /\ to_lowercase(first_word(trim(input))) \notin DispatchTable

\* The last `max_lines` of `lines` followed by `more`, as one sequence.
appended_all(lines, more, max_lines) ==
    LET all == lines \o more
    IN  IF Len(all) > max_lines
        THEN SubSeq(all, Len(all) - max_lines + 1, Len(all))
        ELSE all

\* The diagnostic naming `name`.
diagnostic(name) == FMT_UNKNOWN_PRE \o name \o FMT_UNKNOWN_POST

\* C12 as stated: after an input with an unknown verb is processed the buffer's newest
\* line is the diagnostic naming the input's verb (as typed, or lower-cased).
C12_DiagnosticNamesVerb ==
    (last_frame.ui = "commit" /\ unknown_verb(last_frame.input)) =>
        newest_line \in {diagnostic(first_word(trim(last_frame.input))),
                         diagnostic(to_lowercase(first_word(trim(last_frame.input))))}

\* The inputs with a verb the dispatch table does not hold.
UnknownInputs == {input \in Inputs : unknown_verb(input)}

\* The diagnostic of each of those inputs, naming the whole input trimmed and
\* lower-cased.
unknown_diagnostic == [input \in UnknownInputs |-> diagnostic(to_lowercase(trim(input)))]

\* The diagnostics of those inputs.
UnknownDiagnostics == {unknown_diagnostic[input] : input \in UnknownInputs}

\* A step in which the command line `last_frame'.input` was committed.
commit_step ==
    /\ user_actions' # user_actions
    /\ last_frame'.ui = "commit"

\* In every state: after an input with an unknown verb was committed the newest line
\* is its diagnostic and the status is as it was; and a `status` committed after a
\* diagnostic is answered as usual.
C12_State ==
    /\ (last_frame.ui = "commit" /\ last_frame.input \in UnknownInputs) =>
        /\ newest_line = unknown_diagnostic[last_frame.input]
        /\ (\A t \in 1..Len(tasks) : tasks[t].sent < 2) => status_message = STATUS_NOMINAL
    /\ (committed(CMD_STATUS) /\ before_prompt \in UnknownDiagnostics)
           => newest_line = FMT_SYSTEM_STATUS \o status_message

\* In every step that commits an input with an unknown verb: the buffer is what the
\* tick drain left with the prompt line and the one diagnostic line appended, no task
\* is added, and the status is what the drain left.
C12_Step ==
    (commit_step /\ last_frame'.input \in UnknownInputs) =>
        /\ text_buffer'.lines =
             appended_all(drained.text_buffer.lines,
                          <<FMT_PROMPT \o last_frame'.input,
                            unknown_diagnostic[last_frame'.input]>>,
                          text_buffer.max_lines)
        /\ text_buffer'.max_lines = text_buffer.max_lines
        /\ Len(tasks') = Len(tasks)
        /\ status_message' = drained.status_message

\* C12 as amended: for an input with an unknown verb process_command appends exactly
\* one line, the diagnostic naming the whole input trimmed and lower-cased, and spawns
\* no task; the status is as it was; and a `status` command processed after the
\* diagnostic is answered as usual.
C12_DiagnosticNamesCommand == []C12_State /\ [][C12_Step]_vars

\* C12's case: an input with an unknown verb and an argument was processed, and the
\* `status` command after it.
C12_Witness ==
    /\ committed(CMD_STATUS)
    /\ \E input \in Inputs :
        /\ unknown_verb(input)
        /\ first_word(trim(input)) # trim(input)
        /\ before_prompt = diagnostic(to_lowercase(trim(input)))
    /\ newest_line = FMT_SYSTEM_STATUS \o status_message

\* Whether `input` selects process_command's async-task arm.
is_async_task(input) == to_lowercase(trim(input)) = CMD_ASYNC_TASK

\* The inputs that select it.
AsyncTaskInputs == {input \in Inputs : is_async_task(input)}

\* The lines the drain appends for the two messages of an async-task task.
AsyncTaskLines == {ASYNC_TASK_STARTED, FMT_ASYNC \o COMMAND_EXECUTED}

\* The tasks spawned by the async-task command.
async_tasks == {t \in 1..Len(tasks) : tasks[t].kind = "async-task"}

\* The positions after `j` of the buffer that hold the acknowledgement line.
acknowledgements_after(j) ==
    {i \in (j + 1)..Len(text_buffer.lines) : text_buffer.lines[i] = ASYNC_TASK_INITIATED}

\* The types of the messages of task `t` in the channel, oldest first.
queued_types(t) ==
    LET of_task(m) == m.task = t
        own == SelectSeq(channel, of_task)
    IN  [i \in 1..Len(own) |-> own[i].type]

\* In every state: a line of an async-task task in the buffer is followed by fewer
\* acknowledgements than there are such tasks (its own came before it); and a task is
\* past its delay exactly when it has sent one message and not yet the other.
C13_State ==
    /\ \A j \in 1..Len(text_buffer.lines) : text_buffer.lines[j] \in AsyncTaskLines =>
         Cardinality(acknowledgements_after(j)) < Cardinality(async_tasks)
    /\ \A t \in 1..Len(tasks) :
         /\ tasks[t].pc = "send_start" => tasks[t].sent = 0
         /\ tasks[t].pc \in {"sleep", "send_done"} => tasks[t].sent = 1
         /\ tasks[t].sent = 2 => tasks[t].pc = "done"
         /\ tasks[t].applied \in {<<>>, <<"NewLine">>, <<"TaskCompleted">>,
                                  <<"NewLine", "TaskCompleted">>}
         /\ Len(tasks[t].applied) <= tasks[t].sent
         /\ queued_types(t) \in {<<>>, <<"NewLine">>, <<"TaskCompleted">>,
                                 <<"NewLine", "TaskCompleted">>}

\* In every step: a committed async-task leaves the buffer the tick drain left with
\* the prompt line and the acknowledgement appended, and one more task, which has sent
\* nothing, the others being as they were; and a task
\* sends its TaskCompleted only from the end of its sleep, which it began after its
\* NewLine was sent.
C13_Step ==
    /\ (commit_step /\ last_frame'.input \in AsyncTaskInputs) =>
         /\ text_buffer'.lines =
              appended_all(drained.text_buffer.lines,
                           <<FMT_PROMPT \o last_frame'.input, ASYNC_TASK_INITIATED>>,
                           text_buffer.max_lines)
         /\ Len(tasks') = Len(tasks) + 1
         /\ tasks'[Len(tasks')] = [kind |-> "async-task", pc |-> "send_start",
                                   sent |-> 0, applied |-> <<>>]
         /\ \A t \in 1..Len(tasks) : /\ tasks'[t].pc = tasks[t].pc
                                     /\ tasks'[t].sent = tasks[t].sent
    /\ \A t \in 1..Len(tasks) :
         /\ (tasks'[t].sent = 2 /\ tasks[t].sent # 2) =>
              tasks[t].pc = "send_done" /\ tasks[t].sent = 1
         /\ (tasks'[t].pc = "send_done" /\ tasks[t].pc # "send_done") =>
              tasks[t].pc = "sleep" /\ tasks[t].sent = 1

\* C13: processing async-task appends the acknowledgement line in the same call and
\* submits exactly one background task; in the buffer the acknowledgement precedes
\* every line of that task's messages; the task sends its TaskCompleted only after its
\* delay, which follows its NewLine.
C13_AcknowledgedThenOrdered == []C13_State /\ [][C13_Step]_vars

\* An async-task task whose two messages were applied, the three lines in the buffer in
\* the order acknowledgement, NewLine, TaskCompleted.
C13_Witness ==
    \E t \in async_tasks :
        /\ tasks[t].applied = <<"NewLine", "TaskCompleted">>
        /\ \E i, j, k \in 1..Len(text_buffer.lines) :
            /\ i < j /\ j < k
            /\ text_buffer.lines[i] = ASYNC_TASK_INITIATED
            /\ text_buffer.lines[j] = ASYNC_TASK_STARTED
            /\ text_buffer.lines[k] = FMT_ASYNC \o COMMAND_EXECUTED

\* The texts of the queued messages, oldest first.
queued_texts == [i \in 1..Len(channel) |-> channel[i].text]

\* The line the drain appends for each queued message, oldest first.
queued_lines ==
    [i \in 1..Len(channel) |-> IF channel[i].type = "TaskCompleted"
                               THEN FMT_ASYNC \o channel[i].text
                               ELSE channel[i].text]

\* A step in which the tick drain applied the queued messages.
drain_step ==
    /\ channel # <<>>
    /\ \E t \in 1..Len(tasks) : tasks'[t].applied # tasks[t].applied

\* C14 as stated: the drain appends one line per queued message in arrival order, the
\* line being the text of the message for a NewLine and for a TaskCompleted alike.
C14_DrainAppendsTexts ==
    drained.text_buffer.lines =
        appended_all(text_buffer.lines, queued_texts, text_buffer.max_lines)

\* In every state, the drain of the channel as it stands appends one line per queued
\* message, oldest first: the text for a NewLine, `[ASYNC] ` and the text for a
\* TaskCompleted; it keeps the capacity and the scroll offset.
C14_State ==
    /\ drained.text_buffer.lines =
         appended_all(text_buffer.lines, queued_lines, text_buffer.max_lines)
    /\ drained.text_buffer.max_lines = text_buffer.max_lines
    /\ drained.text_buffer.scroll_position = text_buffer.scroll_position

\* In every step in which the tick applies messages with no command committed, the
\* buffer afterwards is the buffer before with those lines appended, and the channel
\* is empty.
C14_Step ==
    (drain_step /\ user_actions' = user_actions) =>
        /\ text_buffer'.lines =
             appended_all(text_buffer.lines, queued_lines, text_buffer.max_lines)
        /\ channel' = <<>>
        /\ \A t \in 1..Len(tasks) :
             Len(tasks'[t].applied) = Len(tasks[t].applied) + queued(t)

\* C14 as amended: the tick drain applies each queued message as exactly one appended
\* line, in arrival order: a NewLine(text) appends text, a TaskCompleted(text) appends
\* `[ASYNC] ` followed by text.
C14_DrainAppendsLines == []C14_State /\ [][C14_Step]_vars

\* A tick has applied the TaskCompleted of a task after its NewLine: the newest line is
\* the completion text behind its `[ASYNC] ` mark.
C14_Witness ==
    /\ last_frame.ui = "none"
    /\ channel = <<>>
    /\ \E t \in 1..Len(tasks) :
        /\ tasks[t].applied = <<"NewLine", "TaskCompleted">>
        /\ newest_line = FMT_ASYNC \o task_completion(tasks[t].kind)
        /\ newest_line # task_completion(tasks[t].kind)

\* The application state the drain starts from.
undrained == [status_message |-> status_message, text_buffer |-> text_buffer]

\* A step of the consumer that ran the tick drain.
tick_step ==
    \/ last_frame' # last_frame
    \/ user_actions' # user_actions
    \/ drain_step

\* In every state with nothing queued, the drain returns the state it was given and
\* records nothing as applied, and while the receiver exists the tick can be taken.
C15_State ==
    /\ channel = <<>> =>
         /\ drained = undrained
         /\ record_applied(tasks, channel) = tasks
    /\ (receiver_alive /\ channel = <<>>) => ENABLED RedrawIdle

\* In every step: a tick leaves nothing queued, so that a second drain straight after
\* it returns what it is given; and a tick with nothing queued and no widget activated
\* leaves the buffer, with its scroll offset, the status and the tasks as they were.
C15_Step ==
    /\ tick_step =>
         /\ channel' = <<>>
         /\ drained' = undrained'
    /\ (last_frame' # last_frame /\ last_frame'.ui = "none"
            /\ user_actions' = user_actions /\ channel = <<>>) =>
         /\ text_buffer' = text_buffer
         /\ status_message' = status_message
         /\ tasks' = tasks

\* C15: a drain that follows a drain with no send between them yields nothing; a tick
\* with no message queued does not block and leaves the buffer lines, the scroll
\* offset and the status summary unchanged.
C15_EmptyTick == []C15_State /\ [][C15_Step]_vars

\* A tick was taken with nothing queued (no task was ever spawned), after a command
\* had been committed.
C15_Witness ==
    /\ last_frame.ui = "none"
    /\ tasks = <<>>
    /\ channel = <<>>
    /\ user_actions > 0
    /\ receiver_alive

\* The inputs that are empty once trimmed: the empty string and whitespace alone.
EmptyInputs == {input \in Inputs : trim(input) = <<>>}

\* In every state, process_command and the commit path given an empty input return the
\* buffer they were given and ask for no task.
C16_State ==
    \A input \in EmptyInputs, time \in Times, date \in Dates :
        /\ process_command(input, text_buffer, status_message, time, date)
             = [text_buffer |-> text_buffer, spawn |-> "none"]
        /\ commit(input, text_buffer, status_message, time, date)
             = [text_buffer |-> text_buffer, spawn |-> "none"]

\* In every step that commits an empty input, the buffer and the status are what the
\* tick drain left, and no task is added.
C16_Step ==
    (commit_step /\ last_frame'.input \in EmptyInputs) =>
        /\ text_buffer' = drained.text_buffer
        /\ status_message' = drained.status_message
        /\ Len(tasks') = Len(tasks)
        /\ \A t \in 1..Len(tasks) : tasks'[t].pc = tasks[t].pc

\* C16: empty input (the empty string or whitespace only) is a no-op, through
\* process_command and through the commit path of the UI: no line is appended, no task
\* is spawned, and the buffer, its scroll offset and the status are unchanged.
C16_EmptyInputNoOp == []C16_State /\ [][C16_Step]_vars

\* A whitespace-only command line was committed.
C16_Witness ==
    /\ last_frame.ui = "commit"
    /\ last_frame.input \in EmptyInputs
    /\ last_frame.input # <<>>

\* A step of a background task: its send, the end of its sleep, or its end.
task_step ==
    \E t \in 1..Len(tasks) : tasks'[t].pc # tasks[t].pc \/ tasks'[t].sent # tasks[t].sent

\* C17: every step of a spawned task (a send, its sleep, its end) leaves the buffer
\* lines, the scroll offset and the status summary unchanged; those change only in
\* steps of the consumer, which run the tick drain while the receiver exists.
C17_TasksLeaveConsumerState ==
    [][ /\ task_step => /\ text_buffer' = text_buffer
                        /\ status_message' = status_message
                        /\ command_input' = command_input
        /\ (text_buffer' # text_buffer \/ status_message' # status_message) =>
             /\ ~task_step
             /\ receiver_alive
             /\ channel' = <<>>
             /\ tick_step ]_vars

\* A task has run to its end, both messages sent and still queued, none applied.
C17_Witness ==
    \E t \in 1..Len(tasks) :
        /\ tasks[t].pc = "done"
        /\ tasks[t].sent = 2
        /\ tasks[t].applied = <<>>
        /\ queued(t) = 2

\* Whether task `t` is at one of its sends.
at_send(t) == tasks[t].pc \in {"send_start", "send_done"}

\* The message the send of task `t` queues, apart from the time of day in its text.
sending(t, message) ==
    /\ message.task = t
    /\ message.type = (IF tasks[t].pc = "send_start" THEN "NewLine" ELSE "TaskCompleted")
    /\ message.text \in (IF tasks[t].pc = "send_start"
                         THEN {task_first_message(tasks[t].kind, time) : time \in Times}
                         ELSE {task_completion(tasks[t].kind)})

\* In every state: the channel holds at most its capacity; while it is full no send
\* can complete, and the tick and the sleeping tasks can still go on; once it has room
\* (and the receiver exists) every task at a send can complete it.
C18_State ==
    /\ Len(channel) <= CHANNEL_CAPACITY
    /\ (receiver_alive /\ Len(channel) = CHANNEL_CAPACITY) => ENABLED RedrawIdle
    /\ \A t \in 1..Len(tasks) :
         /\ (receiver_alive /\ Len(channel) = CHANNEL_CAPACITY) =>
              /\ ~ENABLED TaskSendStart(t)
              /\ ~ENABLED TaskSendDone(t)
              /\ tasks[t].pc = "sleep" => ENABLED TaskSleep(t)
         /\ (receiver_alive /\ Len(channel) < CHANNEL_CAPACITY) =>
              /\ tasks[t].pc = "send_start" => ENABLED TaskSendStart(t)
              /\ tasks[t].pc = "send_done" => ENABLED TaskSendDone(t)

\* In every step: a task that goes past a send with the send counted as done has put
\* its message at the end of the channel, which had room; a task stays at its send
\* while the channel is full and the receiver exists.
C18_Step ==
    \A t \in 1..Len(tasks) :
        /\ tasks'[t].sent # tasks[t].sent =>
             /\ at_send(t)
             /\ tasks'[t].sent = tasks[t].sent + 1
             /\ Len(channel) < CHANNEL_CAPACITY
             /\ Len(channel') = Len(channel) + 1
             /\ SubSeq(channel', 1, Len(channel)) = channel
             /\ sending(t, channel'[Len(channel')])
        /\ (at_send(t) /\ receiver_alive /\ Len(channel) = CHANNEL_CAPACITY) =>
             /\ tasks'[t].pc = tasks[t].pc
             /\ tasks'[t].sent = tasks[t].sent

\* C18: the channel is bounded and loses nothing on overflow: the number of queued
\* messages never exceeds the capacity; a send on a full channel suspends its task
\* until there is room, dropping nothing and blocking neither the consumer nor the
\* other tasks; and a send that reports success has queued its message.
C18_BoundedChannel == []C18_State /\ [][C18_Step]_vars

\* The channel is full and a task is suspended at its send.
C18_Witness ==
    /\ receiver_alive
    /\ Len(channel) = CHANNEL_CAPACITY
    /\ \E t \in 1..Len(tasks) : at_send(t)

\* In every state: once the receiver is gone nothing is queued and every task at a
\* send can take the failure; a task that failed did so with the receiver gone, short
\* of the messages it had to send, and has no further step.
C19_State ==
    /\ ~receiver_alive => channel = <<>>
    /\ \A t \in 1..Len(tasks) :
         /\ (~receiver_alive /\ at_send(t)) =>
              /\ ENABLED TaskSendFail(t)
              /\ ~ENABLED TaskSendStart(t)
              /\ ~ENABLED TaskSendDone(t)
         /\ tasks[t].pc = "failed" =>
              /\ ~receiver_alive
              /\ tasks[t].sent < (IF has_completion(tasks[t].kind) THEN 2 ELSE 1)
              /\ ~ENABLED TaskSendStart(t)
              /\ ~ENABLED TaskSleep(t)
              /\ ~ENABLED TaskSendDone(t)
              /\ ~ENABLED TaskSendFail(t)

\* In every step once the receiver is gone: a task at a send that moves ends as failed
\* with nothing more counted as sent; a failed task stays failed; and the buffer, the
\* status, the channel and what was applied stay as they were.
C19_Step ==
    ~receiver_alive =>
        /\ \A t \in 1..Len(tasks) :
             /\ (at_send(t) /\ tasks'[t] # tasks[t]) =>
                  tasks'[t] = [tasks[t] EXCEPT !.pc = "failed"]
             /\ tasks[t].pc = "failed" => tasks'[t] = tasks[t]
             /\ tasks'[t].applied = tasks[t].applied
        /\ text_buffer' = text_buffer
        /\ status_message' = status_message
        /\ channel' = channel
        /\ ~receiver_alive'

\* C19: once the receiver is gone a task's send fails as a reported error and not as a
\* crash: the task then ends, a task whose NewLine send failed never attempts its
\* TaskCompleted send, and the failed send changes no state of the consumer.
C19_SendFailsHarmlessly == []C19_State /\ [][C19_Step]_vars

\* A task that was to send two messages has ended at the failure of its first send.
C19_Witness ==
    \E t \in 1..Len(tasks) :
        /\ tasks[t].pc = "failed"
        /\ tasks[t].sent = 0
        /\ has_completion(tasks[t].kind)

\* The positions of the channel that hold a TaskCompleted.
completions == {i \in 1..Len(channel) : channel[i].type = "TaskCompleted"}

\* The status after the drain of the channel as it stands: that of the newest queued
\* TaskCompleted, or the status as it is.
status_after_drain ==
    IF completions = {} THEN status_message
    ELSE FMT_STATUS \o channel[CHOOSE i \in completions : \A j \in completions : j <= i].text

\* The inputs that select process_command's status arm.
StatusInputs == {input \in Inputs : to_lowercase(trim(input)) = CMD_STATUS}

\* In every state: the drain sets the status from the newest TaskCompleted queued and
\* leaves it alone when there is none.
C20_State == drained.status_message = status_after_drain

\* In every step: the status afterwards is the status the drain gives, which differs
\* from the status before only in a tick with a TaskCompleted queued; and a committed
\* `status` appends, after the prompt line, one line holding the status of that moment,
\* and adds no task.
C20_Step ==
    /\ status_message' # status_message =>
         /\ completions # {}
         /\ tick_step
         /\ status_message' = status_after_drain
    /\ commit_step => status_message' = status_after_drain
    /\ (commit_step /\ last_frame'.input \in StatusInputs) =>
         /\ text_buffer'.lines =
              appended_all(drained.text_buffer.lines,
                           <<FMT_PROMPT \o last_frame'.input,
                             FMT_SYSTEM_STATUS \o status_message'>>,
                           text_buffer.max_lines)
         /\ Len(tasks') = Len(tasks)

\* C20: the status summary changes only when the tick drain applies a TaskCompleted,
\* and then to a value derived from its text; the drain of a NewLine, every command
\* (`status`, which appends one line holding the status, and `clear` among them) and
\* every scroll operation leave it unchanged.
C20_StatusOnlyFromCompletion == []C20_State /\ [][C20_Step]_vars

\* `status` was committed after a TaskCompleted had set the status: the newest line
\* shows a status that is no longer the one the application started with.
C20_Witness ==
    /\ committed(CMD_STATUS)
    /\ status_message # STATUS_NOMINAL
    /\ \E t \in 1..Len(tasks) : status_message = FMT_STATUS \o task_completion(tasks[t].kind)
    /\ newest_line = FMT_SYSTEM_STATUS \o status_message

\* The inputs that select process_command's scroll-top and scroll-bottom arms.
ScrollInputs ==
    {input \in Inputs : to_lowercase(trim(input)) \in {CMD_SCROLL_TOP, CMD_SCROLL_BOTTOM}}

\* The line the scroll command `input` appends.
scroll_confirmation(input) ==
    IF to_lowercase(trim(input)) = CMD_SCROLL_TOP THEN SCROLLED_TO_TOP ELSE SCROLLED_TO_BOTTOM

\* In every state: the buffer holds no more lines than its capacity, so that there is
\* nothing to scroll over; the offset is 0 and the viewer is at the bottom; each of the
\* four scroll methods returns the buffer it was given; and the visible lines are all
\* the lines of the buffer.
C21_State ==
    /\ max_scroll(text_buffer) = 0
    /\ text_buffer.scroll_position = 0
    /\ is_at_bottom(text_buffer)
    /\ scroll_up(text_buffer) = text_buffer
    /\ scroll_down(text_buffer) = text_buffer
    /\ scroll_to_top(text_buffer) = text_buffer
    /\ scroll_to_bottom(text_buffer) = text_buffer
    /\ visible_lines(text_buffer) = text_buffer.lines

\* In every step that commits `scroll-top` or `scroll-bottom`: the offset is the one
\* the tick drain left, and the buffer is what the drain left with the prompt line and
\* the confirmation appended.
C21_Step ==
    (commit_step /\ last_frame'.input \in ScrollInputs) =>
        /\ text_buffer'.scroll_position = drained.text_buffer.scroll_position
        /\ text_buffer'.lines =
             appended_all(drained.text_buffer.lines,
                          <<FMT_PROMPT \o last_frame'.input,
                            scroll_confirmation(last_frame'.input)>>,
                          text_buffer.max_lines)

\* C21: the viewport being as high as the capacity, scroll_position is 0 in every
\* reachable state: is_at_bottom is always true; scroll_up, scroll_down, scroll_to_top,
\* scroll_to_bottom and the commands `scroll-top` and `scroll-bottom` never change the
\* offset; and visible_lines is always the whole content of the buffer.
C21_NothingToScroll == []C21_State /\ [][C21_Step]_vars

\* `scroll-bottom` was committed on a buffer filled to its capacity.
C21_Witness ==
    /\ committed(CMD_SCROLL_BOTTOM)
    /\ Len(text_buffer.lines) = text_buffer.max_lines
    /\ newest_line = SCROLLED_TO_BOTTOM
    /\ visible_lines(text_buffer) = text_buffer.lines
====
